---- MODULE Spec2Model ----
(***************************************************************************)
(* Model of convert_shp_to_inp (src/app.py): the conversion of a node     *)
(* shapefile and a link shapefile into the text of an EPANET .inp file.    *)
(*                                                                         *)
(* Coordinates are pairs of integers counted in half units of the sixth    *)
(* decimal, so that round(v, 6) is a real rounding (ties go to the even    *)
(* neighbour, as Python's round does).  Identifiers f"N{k}" / f"P{k}" are  *)
(* the pairs <<"N", k>> / <<"P", k>>.  A text is a sequence of tokens:     *)
(* "NL" is the newline, "SP" a blank, "OPT" the characters [OPTIONS] (in   *)
(* any letter case), "UNITS_LPS", "FLOW_LPS" and "HEAD_HW" the three fixed *)
(* declarations, "UNITS_OLD" any other run of characters that begins with  *)
(* UNITS, FLOWUNITS or HEADLOSS, and "OTHER" any other run of characters.  *)
(* Physical quantities are kept in thousandths, with the divisors of the   *)
(* source shortened to fit machine integers.                               *)
(***************************************************************************)
EXTENDS Integers, Sequences, FiniteSets, TLC

VARIABLES pc, row, temp_dirs, temp_file, shp_found, nodes_gdf, links_gdf,
          nodes_dict, wn, data, inp_model, final_inp_content, result,
          st_error, txt_in, txt_prev, txt_out, passes

vars == <<pc, row, temp_dirs, temp_file, shp_found, nodes_gdf, links_gdf,
          nodes_dict, wn, data, inp_model, final_inp_content, result,
          st_error, txt_in, txt_prev, txt_out, passes>>

pipeVars == <<pc, row, temp_dirs, temp_file, shp_found, nodes_gdf, links_gdf,
              nodes_dict, wn, data, inp_model, final_inp_content, result,
              st_error>>

textVars == <<txt_in, txt_prev, txt_out, passes>>

----------------------------------------------------------------------------
(* Bounds *)

MaxLinks == 2

MaxPoints == 1

MaxLen == 4

----------------------------------------------------------------------------
(* Input domains *)

RawCoords == {<<0, 0>>, <<1, 1>>, <<2, 0>>, <<2, 3>>}

LinkRows == [s : RawCoords, e : RawCoords,
             diameter : {6}, Shape__Len : {100}, rugosidade : {120}]

PointCoordsRaw == {<<1, 1>>, <<2, 0>>}

PointRows == [c : PointCoordsRaw, Cota : {10}, Demanda : {100}]

SeqsUpTo(S, n) == UNION {[1..m -> S] : m \in 0..n}

required_node_cols == {"Cota", "Demanda"}

required_link_cols == {"diameter", "Shape__Len", "rugosidade"}

NodeColumnSets == SUBSET required_node_cols

LinkColumnSets == {required_link_cols, {"diameter", "rugosidade"}}

EmptyTable == [columns |-> {}, rows |-> <<>>]

EmptyModel == [nodes |-> <<>>, links |-> <<>>]

NoError == [kind |-> "none", cols |-> {}]

Pending == [kind |-> "pending", text |-> <<>>]

----------------------------------------------------------------------------
(* Text of the .inp file *)

Tokens == {"NL", "SP", "OPT", "UNITS_LPS", "FLOW_LPS", "HEAD_HW",
           "UNITS_OLD", "OTHER"}

Whitespace == {"NL", "SP"}

UnitPrefixed == {"UNITS_LPS", "FLOW_LPS", "HEAD_HW", "UNITS_OLD"}

options == << <<"UNITS_LPS", "NL">>, <<"FLOW_LPS", "NL">>, <<"HEAD_HW", "NL">> >>

SerializedTexts ==
  { <<"OTHER", "NL", "OPT", "NL", "UNITS_OLD", "NL", "OTHER", "NL">>,
    <<"OTHER", "NL", "UNITS_OLD", "NL", "OTHER", "NL">>,
    <<"OPT", "NL", "OTHER", "NL">> }

RECURSIVE readlines(_)
readlines(text) ==
  IF text = <<>> THEN <<>>
  ELSE LET nls == {p \in 1..Len(text) : text[p] = "NL"}
       IN IF nls = {} THEN <<text>>
          ELSE LET p == CHOOSE q \in nls : \A r \in nls : q <= r
               IN <<SubSeq(text, 1, p)>> \o readlines(SubSeq(text, p + 1, Len(text)))

strip(line) ==
  LET keep == {p \in 1..Len(line) : line[p] \notin Whitespace}
  IN IF keep = {} THEN <<>>
     ELSE LET lo == CHOOSE q \in keep : \A r \in keep : q <= r
              hi == CHOOSE q \in keep : \A r \in keep : q >= r
          IN SubSeq(line, lo, hi)

IsOptionsHeader(line) == strip(line) = <<"OPT">>

IsUnitLine(line) == strip(line) # <<>> /\ Head(strip(line)) \in UnitPrefixed

RECURSIVE CleanLines(_, _, _)
CleanLines(lines, options_index, clean_data) ==
  IF lines = <<>> THEN [options_index |-> options_index, clean_data |-> clean_data]
  ELSE LET line == Head(lines)
       IN IF IsOptionsHeader(line)
          THEN CleanLines(Tail(lines), Len(clean_data), Append(clean_data, line))
          ELSE IF IsUnitLine(line)
               THEN CleanLines(Tail(lines), options_index, clean_data)
               ELSE CleanLines(Tail(lines), options_index, Append(clean_data, line))

InsertOptionsAlways(st) ==
  SubSeq(st.clean_data, 1, st.options_index + 1) \o options
    \o SubSeq(st.clean_data, st.options_index + 2, Len(st.clean_data))

InsertOptions(st) ==
  IF st.options_index # -1
  THEN SubSeq(st.clean_data, 1, st.options_index + 1) \o options
         \o SubSeq(st.clean_data, st.options_index + 2, Len(st.clean_data))
  ELSE st.clean_data

RECURSIVE join(_)
join(lines) == IF lines = <<>> THEN <<>> ELSE Head(lines) \o join(Tail(lines))

Normalize(text) == join(InsertOptions(CleanLines(readlines(text), -1, <<>>)))

----------------------------------------------------------------------------
(* Coordinates, identifiers and unit conversions *)

Round6(v) ==
  LET q == v \div 2
  IN IF v % 2 = 0 THEN q ELSE IF q % 2 = 0 THEN q ELSE q + 1

Trunc6(v) == v \div 2

RoundPair(p) == <<Round6(p[1]), Round6(p[2])>>

TruncPair(p) == <<Trunc6(p[1]), Trunc6(p[2])>>

ScanCoords(p) == <<Round6(p[1]), Round6(p[2])>>

PointCoords(p) == <<Round6(p[1]), Round6(p[2])>>

PipeCoords(p) == <<Round6(p[1]), Round6(p[2])>>

NodeId(k) == <<"N", k>>

LinkId(k) == <<"P", k>>

ElevationM(cota) == (cota * 1000000) \div 3281

DemandLps(demanda) == (demanda * 1000000) \div 15850

DiameterM(d) == (d * 1000000) \div 39370

LengthM(len) == (len * 1000000) \div 3281

Junction(coords) == [elevation |-> 0, base_demand |-> 0, coordinates |-> coords]

----------------------------------------------------------------------------
(* The network model and the coordinate dictionary *)

AddEndpointNoCheck(st, coords) ==
  LET node_id == NodeId(Cardinality(DOMAIN st.nodes_dict) + 1)
  IN [nodes_dict |-> (coords :> node_id) @@ st.nodes_dict,
      nodes |-> (node_id :> Junction(coords)) @@ st.nodes]

AddEndpoint(st, coords) ==
  IF coords \notin DOMAIN st.nodes_dict
  THEN LET node_id == NodeId(Cardinality(DOMAIN st.nodes_dict) + 1)
       IN [nodes_dict |-> (coords :> node_id) @@ st.nodes_dict,
           nodes |-> (node_id :> Junction(coords)) @@ st.nodes]
  ELSE st

ScanRowEndFirst(st, r) ==
  AddEndpoint(AddEndpoint(st, ScanCoords(r.e)), ScanCoords(r.s))

ScanRow(st, r) ==
  AddEndpoint(AddEndpoint(st, ScanCoords(r.s)), ScanCoords(r.e))

UpdatedNodesCreating(nodes, dict, r) ==
  LET coords == PointCoords(r.c)
      node_id == IF coords \in DOMAIN dict THEN dict[coords]
                 ELSE NodeId(Cardinality(DOMAIN nodes) + 1)
  IN (node_id :> [elevation |-> ElevationM(r.Cota),
                  base_demand |-> DemandLps(r.Demanda),
                  coordinates |-> coords]) @@ nodes

UpdatedNodes(nodes, dict, r) ==
  LET coords == PointCoords(r.c)
  IN IF coords \in DOMAIN dict
     THEN [nodes EXCEPT ![dict[coords]] =
             [@ EXCEPT !.elevation = ElevationM(r.Cota),
                       !.base_demand = DemandLps(r.Demanda)]]
     ELSE nodes

NewPipe(links, node1, node2, r) ==
  (LinkId(Cardinality(DOMAIN links) + 1) :>
     [start_node |-> node1, end_node |-> node2,
      length |-> LengthM(r.Shape__Len), diameter |-> DiameterM(r.diameter),
      roughness |-> r.rugosidade, minor_loss |-> 0]) @@ links

----------------------------------------------------------------------------
(* The exception handler of convert_shp_to_inp: every exception raised     *)
(* inside the try block leaves the with block (the two temporary           *)
(* directories are removed), is reported, and the call returns None.       *)

MissingOnly(required, present) == required \ present

MessageCols(required, present) == required

ReturnTextOnError(text) == [kind |-> "str", text |-> text]

ReturnOnError(text) == [kind |-> "None", text |-> <<>>]

Raise(kind, cols) ==
  /\ pc' = "done"
  /\ temp_dirs' = FALSE
  /\ result' = ReturnOnError(final_inp_content)
  /\ UNCHANGED final_inp_content
  /\ st_error' = [kind |-> kind, cols |-> cols]

----------------------------------------------------------------------------
(* Steps of convert_shp_to_inp *)

Init ==
  /\ pc = "start"
  /\ row = 1
  /\ temp_dirs = FALSE
  /\ temp_file = "none"
  /\ shp_found = <<FALSE, FALSE>>
  /\ nodes_gdf = EmptyTable
  /\ links_gdf = EmptyTable
  /\ nodes_dict = <<>>
  /\ wn = EmptyModel
  /\ data = <<>>
  /\ inp_model = EmptyModel
  /\ final_inp_content = <<>>
  /\ result = Pending
  /\ st_error = NoError
  /\ txt_in = <<>>
  /\ txt_prev = <<>>
  /\ txt_out = <<>>
  /\ passes = 0

Extract ==
  /\ pc = "start"
  /\ \/ /\ \E n \in BOOLEAN, l \in BOOLEAN : shp_found' = <<n, l>>
        /\ temp_dirs' = TRUE
        /\ pc' = "find_shp"
        /\ UNCHANGED <<final_inp_content, result, st_error>>
     \/ /\ Raise("BadZipFile", {})
        /\ UNCHANGED shp_found
  /\ UNCHANGED <<row, temp_file, nodes_gdf, links_gdf, nodes_dict, wn, data,
                 inp_model>>
  /\ UNCHANGED textVars

FindShapefiles ==
  /\ pc = "find_shp"
  /\ IF ~shp_found[1] \/ ~shp_found[2]
     THEN Raise("FileNotFoundError", {})
     ELSE /\ pc' = "read"
          /\ UNCHANGED <<temp_dirs, final_inp_content, result, st_error>>
  /\ UNCHANGED <<row, temp_file, shp_found, nodes_gdf, links_gdf, nodes_dict,
                 wn, data, inp_model>>
  /\ UNCHANGED textVars

ReadFiles ==
  /\ pc = "read"
  /\ \/ /\ \E ncols \in NodeColumnSets, nrows \in SeqsUpTo(PointRows, MaxPoints) :
             nodes_gdf' = [columns |-> ncols, rows |-> nrows]
        /\ \E lcols \in LinkColumnSets, lrows \in SeqsUpTo(LinkRows, MaxLinks) :
             links_gdf' = [columns |-> lcols, rows |-> lrows]
        /\ wn' = EmptyModel
        /\ nodes_dict' = <<>>
        /\ row' = 1
        /\ pc' = "scan"
        /\ UNCHANGED <<temp_dirs, final_inp_content, result, st_error>>
     \/ /\ Raise("ReadError", {})
        /\ UNCHANGED <<nodes_gdf, links_gdf, wn, nodes_dict, row>>
  /\ UNCHANGED <<temp_file, shp_found, data, inp_model>>
  /\ UNCHANGED textVars

ScanLink ==
  /\ pc = "scan"
  /\ row <= Len(links_gdf.rows)
  /\ \/ /\ LET st == ScanRow([nodes_dict |-> nodes_dict, nodes |-> wn.nodes],
                             links_gdf.rows[row])
           IN /\ nodes_dict' = st.nodes_dict
              /\ wn' = [wn EXCEPT !.nodes = st.nodes]
        /\ row' = row + 1
        /\ UNCHANGED <<pc, temp_dirs, final_inp_content, result, st_error>>
     \/ /\ Raise("GeometryError", {})
        /\ UNCHANGED <<nodes_dict, wn, row>>
  /\ UNCHANGED <<temp_file, shp_found, nodes_gdf, links_gdf, data, inp_model>>
  /\ UNCHANGED textVars

ValidateNodeColumns ==
  /\ pc = "scan"
  /\ row > Len(links_gdf.rows)
  /\ IF ~(required_node_cols \subseteq nodes_gdf.columns)
     THEN /\ Raise("ValueError",
                   MessageCols(required_node_cols, nodes_gdf.columns))
          /\ UNCHANGED row
     ELSE /\ pc' = "update"
          /\ row' = 1
          /\ UNCHANGED <<temp_dirs, final_inp_content, result, st_error>>
  /\ UNCHANGED <<temp_file, shp_found, nodes_gdf, links_gdf, nodes_dict, wn,
                 data, inp_model>>
  /\ UNCHANGED textVars

UpdateNode ==
  /\ pc = "update"
  /\ row <= Len(nodes_gdf.rows)
  /\ \/ /\ wn' = [wn EXCEPT !.nodes = UpdatedNodes(wn.nodes, nodes_dict,
                                                   nodes_gdf.rows[row])]
        /\ row' = row + 1
        /\ UNCHANGED <<pc, temp_dirs, final_inp_content, result, st_error>>
     \/ /\ Raise("AttributeError", {})
        /\ UNCHANGED <<wn, row>>
  /\ UNCHANGED <<temp_file, shp_found, nodes_gdf, links_gdf, nodes_dict, data,
                 inp_model>>
  /\ UNCHANGED textVars

ValidateLinkColumns ==
  /\ pc = "update"
  /\ row > Len(nodes_gdf.rows)
  /\ IF ~(required_link_cols \subseteq links_gdf.columns)
     THEN /\ Raise("ValueError",
                   MessageCols(required_link_cols, links_gdf.columns))
          /\ UNCHANGED row
     ELSE /\ pc' = "pipes"
          /\ row' = 1
          /\ UNCHANGED <<temp_dirs, final_inp_content, result, st_error>>
  /\ UNCHANGED <<temp_file, shp_found, nodes_gdf, links_gdf, nodes_dict, wn,
                 data, inp_model>>
  /\ UNCHANGED textVars

AddPipe ==
  /\ pc = "pipes"
  /\ row <= Len(links_gdf.rows)
  /\ LET r == links_gdf.rows[row]
         start_coords == PipeCoords(r.s)
         end_coords == PipeCoords(r.e)
     IN IF start_coords \notin DOMAIN nodes_dict \/ end_coords \notin DOMAIN nodes_dict
        THEN /\ Raise("KeyError", {})
             /\ UNCHANGED <<wn, row>>
        ELSE IF nodes_dict[start_coords] \notin DOMAIN wn.nodes
                  \/ nodes_dict[end_coords] \notin DOMAIN wn.nodes
             THEN /\ Raise("UnknownNode", {})
                  /\ UNCHANGED <<wn, row>>
             ELSE \/ /\ wn' = [wn EXCEPT !.links =
                                 NewPipe(wn.links, nodes_dict[start_coords],
                                         nodes_dict[end_coords], r)]
                     /\ row' = row + 1
                     /\ UNCHANGED <<pc, temp_dirs, final_inp_content, result,
                                    st_error>>
                  \/ /\ Raise("PipeError", {})
                     /\ UNCHANGED <<wn, row>>
  /\ UNCHANGED <<temp_file, shp_found, nodes_gdf, links_gdf, nodes_dict,
                 data, inp_model>>
  /\ UNCHANGED textVars

WriteInpFile ==
  /\ pc = "pipes"
  /\ row > Len(links_gdf.rows)
  /\ temp_file' = "exists"
  /\ \/ /\ \E text \in SerializedTexts : data' = text
        /\ inp_model' = wn
        /\ pc' = "postprocess"
        /\ UNCHANGED <<temp_dirs, final_inp_content, result, st_error>>
     \/ /\ Raise("WriteError", {})
        /\ UNCHANGED <<data, inp_model>>
  /\ UNCHANGED <<row, shp_found, nodes_gdf, links_gdf, nodes_dict, wn>>
  /\ UNCHANGED textVars

PostProcess ==
  /\ pc = "postprocess"
  /\ \/ /\ final_inp_content' = Normalize(data)
        /\ pc' = "remove"
        /\ UNCHANGED <<temp_dirs, result, st_error>>
     \/ Raise("ReadError", {})
  /\ UNCHANGED <<row, temp_file, shp_found, nodes_gdf, links_gdf, nodes_dict,
                 wn, data, inp_model>>
  /\ UNCHANGED textVars

RemoveAndReturn ==
  /\ pc = "remove"
  /\ \/ /\ temp_file' = "removed"
        /\ temp_dirs' = FALSE
        /\ result' = [kind |-> "str", text |-> final_inp_content]
        /\ pc' = "done"
        /\ UNCHANGED <<final_inp_content, st_error>>
     \/ /\ Raise("RemoveError", {})
        /\ UNCHANGED temp_file
  /\ UNCHANGED <<row, shp_found, nodes_gdf, links_gdf, nodes_dict, wn, data,
                 inp_model>>
  /\ UNCHANGED textVars

Next ==
  \/ Extract
  \/ FindShapefiles
  \/ ReadFiles
  \/ ScanLink
  \/ ValidateNodeColumns
  \/ UpdateNode
  \/ ValidateLinkColumns
  \/ AddPipe
  \/ WriteInpFile
  \/ PostProcess
  \/ RemoveAndReturn

Spec == Init /\ [][Next]_vars

----------------------------------------------------------------------------
(* The [OPTIONS] normalisation (lines 114-138) taken on its own: it is     *)
(* applied to an arbitrary text, and then to its own output.               *)

InitText ==
  /\ pc = "text"
  /\ row = 1
  /\ temp_dirs = FALSE
  /\ temp_file = "none"
  /\ shp_found = <<FALSE, FALSE>>
  /\ nodes_gdf = EmptyTable
  /\ links_gdf = EmptyTable
  /\ nodes_dict = <<>>
  /\ wn = EmptyModel
  /\ data = <<>>
  /\ inp_model = EmptyModel
  /\ final_inp_content = <<>>
  /\ result = Pending
  /\ st_error = NoError
  /\ txt_in \in SeqsUpTo(Tokens, MaxLen)
  /\ txt_prev = txt_in
  /\ txt_out = txt_in
  /\ passes = 0

NormalizeText ==
  /\ pc = "text"
  /\ passes < 2
  /\ txt_prev' = txt_out
  /\ txt_out' = Normalize(txt_out)
  /\ passes' = passes + 1
  /\ UNCHANGED txt_in
  /\ UNCHANGED pipeVars

NextText == NormalizeText

SpecText == InitText /\ [][NextText]_vars

----------------------------------------------------------------------------
(* Properties of the [OPTIONS] normalisation *)

HasHeader(text) ==
  \E p \in 1..Len(readlines(text)) : IsOptionsHeader(readlines(text)[p])

NotUnitLine(line) == ~IsUnitLine(line)

KeptLines(text) == SelectSeq(readlines(text), NotUnitLine)

----------------------------------------------------------------------------
(* Properties of the conversion *)

ScanDone ==
  \/ pc = "scan" /\ row > Len(links_gdf.rows)
  \/ pc # "scan" /\ st_error.kind # "GeometryError"

RoundedEndpoints ==
  {RoundPair(links_gdf.rows[k].s) : k \in 1..Len(links_gdf.rows)}
    \cup {RoundPair(links_gdf.rows[k].e) : k \in 1..Len(links_gdf.rows)}

JunctionCoords == {wn.nodes[n].coordinates : n \in DOMAIN wn.nodes}

\* C1: after the endpoint scan the junctions are in one-to-one
\* correspondence with the distinct rounded endpoints of the link records:
\* as many junctions as distinct rounded endpoints, the same coordinates,
\* and no two junctions at one coordinate.
C1_Deduplication ==
  ScanDone =>
    /\ Cardinality(DOMAIN wn.nodes) = Cardinality(RoundedEndpoints)
    /\ JunctionCoords = RoundedEndpoints
    /\ \A a \in DOMAIN wn.nodes, b \in DOMAIN wn.nodes :
         wn.nodes[a].coordinates = wn.nodes[b].coordinates => a = b

C1_Witness ==
  /\ pc = "update"
  /\ Len(links_gdf.rows) = 2
  /\ links_gdf.rows[1].s # links_gdf.rows[2].s
  /\ RoundPair(links_gdf.rows[1].s) = RoundPair(links_gdf.rows[2].s)
  /\ links_gdf.rows[1].e = links_gdf.rows[2].e
  /\ Cardinality(DOMAIN wn.nodes) = 2

\* C2: during the pipe pass and in the final model every pipe's start and
\* end identifiers name junctions of the model, and the lookup of a link
\* endpoint in the coordinate dictionary never misses.
C2_ReferentialIntegrity ==
  /\ st_error.kind \notin {"KeyError", "UnknownNode"}
  /\ \A l \in DOMAIN wn.links :
       /\ wn.links[l].start_node \in DOMAIN wn.nodes
       /\ wn.links[l].end_node \in DOMAIN wn.nodes
  /\ \A l \in DOMAIN inp_model.links :
       /\ inp_model.links[l].start_node \in DOMAIN inp_model.nodes
       /\ inp_model.links[l].end_node \in DOMAIN inp_model.nodes

C2_Witness ==
  /\ pc = "done"
  /\ result.kind = "str"
  /\ Cardinality(DOMAIN wn.links) = 2
  /\ \E l \in DOMAIN wn.links : wn.links[l].start_node = wn.links[l].end_node
  /\ \E k \in 1..Len(links_gdf.rows) :
       /\ links_gdf.rows[k].s # links_gdf.rows[k].e
       /\ RoundPair(links_gdf.rows[k].s) = RoundPair(links_gdf.rows[k].e)

NodeColumnsMissing == ~(required_node_cols \subseteq nodes_gdf.columns)

\* C5 (as stated): when the point table lacks Cota or Demanda the
\* conversion fails without output and the message lists exactly the
\* missing columns.
C5_ListsMissingColumns ==
  (pc = "done" /\ NodeColumnsMissing) =>
    /\ result.kind = "None"
    /\ temp_file = "none"
    /\ st_error.kind = "ValueError" =>
         st_error.cols = required_node_cols \ nodes_gdf.columns

\* C5 (amended): when the point table lacks Cota or Demanda the conversion
\* fails without output and the message of the column check lists both
\* required columns, whichever of them is missing.
C5_ListsRequiredColumns ==
  (pc = "done" /\ NodeColumnsMissing) =>
    /\ result.kind = "None"
    /\ temp_file = "none"
    /\ st_error.kind = "ValueError" => st_error.cols = {"Cota", "Demanda"}

C5_Witness ==
  /\ pc = "done"
  /\ nodes_gdf.columns = {"Cota"}
  /\ st_error.kind = "ValueError"
  /\ Len(links_gdf.rows) = 2

\* C6: when the call returns, the two temporary directories and the
\* temporary .inp file no longer exist.
C6_TemporariesRemoved ==
  pc = "done" => (~temp_dirs /\ temp_file # "exists")

\* C7: a failure at any step yields None and a reported message, never
\* text; text is returned only when every step has completed: all pipes
\* added, the model written, the text post-processed.
C7_AllOrNothing ==
  pc = "done" =>
    /\ result.kind \in {"None", "str"}
    /\ result.kind = "None" <=> st_error # NoError
    /\ result.kind = "None" => result.text = <<>>
    /\ result.kind = "str" =>
         /\ required_node_cols \subseteq nodes_gdf.columns
         /\ required_link_cols \subseteq links_gdf.columns
         /\ Cardinality(DOMAIN wn.links) = Len(links_gdf.rows)
         /\ inp_model = wn
         /\ data \in SerializedTexts
         /\ result.text = Normalize(data)

C7_Witness ==
  /\ pc = "done"
  /\ result.kind = "str"
  /\ Cardinality(DOMAIN wn.links) = 2
  /\ Len(nodes_gdf.rows) = 1

\* C8 (as stated): a serialized text without an [OPTIONS] header makes the
\* conversion report an error instead of returning text.
C8_MissingOptionsIsError ==
  (pc = "done" /\ data # <<>> /\ ~HasHeader(data)) =>
    (result.kind = "None" /\ st_error # NoError)

\* C8 (amended): a serialized text without an [OPTIONS] header is no error:
\* its UNITS, FLOWUNITS and HEADLOSS lines are removed, nothing is inserted,
\* and that text is returned, unless reading the file back or removing the
\* temporary file fails.
C8_MissingOptionsReturnsText ==
  (data # <<>> /\ ~HasHeader(data)) =>
    /\ pc = "remove" => final_inp_content = join(KeptLines(data))
    /\ pc = "done" =>
         \/ /\ result = [kind |-> "str", text |-> join(KeptLines(data))]
            /\ st_error = NoError
         \/ /\ result.kind = "None"
            /\ st_error.kind \in {"ReadError", "RemoveError"}
            /\ temp_file = "exists"

C8_Witness ==
  /\ pc = "done"
  /\ data # <<>>
  /\ ~HasHeader(data)
  /\ result.kind = "str"
  /\ Len(KeptLines(data)) < Len(readlines(data))

MatchesPoint(coords) ==
  \E k \in 1..Len(nodes_gdf.rows) : RoundPair(nodes_gdf.rows[k].c) = coords

\* C9: the pass over the point records never adds or removes a junction
\* and never changes an identifier or a coordinate; a point whose rounded
\* coordinate is not a link endpoint changes nothing; a junction whose
\* coordinate matches no point record keeps elevation 0 and demand 0.
C9_OrphanPointsSkipped ==
  /\ [][(pc = "update" /\ row <= Len(nodes_gdf.rows)) =>
          /\ DOMAIN wn'.nodes = DOMAIN wn.nodes
          /\ \A n \in DOMAIN wn.nodes :
               wn'.nodes[n].coordinates = wn.nodes[n].coordinates
          /\ nodes_dict' = nodes_dict
          /\ wn'.links = wn.links
          /\ RoundPair(nodes_gdf.rows[row].c) \notin RoundedEndpoints =>
               wn' = wn]_vars
  /\ [](\A n \in DOMAIN wn.nodes :
          ~MatchesPoint(wn.nodes[n].coordinates) =>
             (wn.nodes[n].elevation = 0 /\ wn.nodes[n].base_demand = 0))

C9_Witness ==
  /\ pc = "done"
  /\ result.kind = "str"
  /\ Len(nodes_gdf.rows) = 1
  /\ RoundPair(nodes_gdf.rows[1].c) \notin RoundedEndpoints
  /\ Cardinality(DOMAIN wn.nodes) = 2
  /\ \A n \in DOMAIN wn.nodes : wn.nodes[n].elevation = 0

RECURSIVE EndpointSeq(_)
EndpointSeq(rows) ==
  IF rows = <<>> THEN <<>>
  ELSE <<RoundPair(Head(rows).s), RoundPair(Head(rows).e)>>
         \o EndpointSeq(Tail(rows))

FirstSeen(seq) ==
  LET first == {p \in 1..Len(seq) : \A q \in 1..(p - 1) : seq[q] # seq[p]}
      Rank(p) == Cardinality({q \in first : q <= p})
  IN [k \in 1..Cardinality(first) |->
        seq[CHOOSE p \in first : Rank(p) = k]]

Scanned ==
  IF pc = "scan" \/ st_error.kind = "GeometryError"
  THEN SubSeq(links_gdf.rows, 1, row - 1)
  ELSE links_gdf.rows

\* C10: with n distinct rounded endpoints and m link records the junction
\* identifiers are exactly N1..Nn in order of first appearance (start before
\* end, records in table order) and the pipe identifiers are exactly P1..Pm,
\* Pk being the pipe of the k-th link record.
C10_IdentifierSequencing ==
  LET fs == FirstSeen(EndpointSeq(Scanned))
      np == Cardinality(DOMAIN wn.links)
  IN /\ DOMAIN wn.nodes = {<<"N", k>> : k \in 1..Len(fs)}
     /\ DOMAIN nodes_dict = {fs[k] : k \in 1..Len(fs)}
     /\ \A k \in 1..Len(fs) :
          /\ nodes_dict[fs[k]] = <<"N", k>>
          /\ wn.nodes[<<"N", k>>].coordinates = fs[k]
     /\ ScanDone => Len(fs) = Cardinality(RoundedEndpoints)
     /\ DOMAIN wn.links = {<<"P", k>> : k \in 1..np}
     /\ np <= Len(links_gdf.rows)
     /\ pc = "pipes" => np = row - 1
     /\ (pc \in {"postprocess", "remove"} \/ result.kind = "str") =>
          np = Len(links_gdf.rows)
     /\ \A k \in 1..np :
          /\ wn.links[<<"P", k>>].start_node
               = nodes_dict[RoundPair(links_gdf.rows[k].s)]
          /\ wn.links[<<"P", k>>].end_node
               = nodes_dict[RoundPair(links_gdf.rows[k].e)]

C10_Witness ==
  /\ pc = "done"
  /\ result.kind = "str"
  /\ Len(links_gdf.rows) = 2
  /\ Cardinality(DOMAIN wn.nodes) = 3
  /\ RoundPair(links_gdf.rows[1].e) = RoundPair(links_gdf.rows[2].s)
  /\ wn.links[<<"P", 2>>].start_node = <<"N", 2>>
  /\ wn.links[<<"P", 2>>].end_node = <<"N", 3>>

====
